---------------------------- MODULE Spec2Model ----------------------------
(***************************************************************************)
(* Chunked upload subsystem of app.py: upload_init, upload_chunk and       *)
(* upload_complete, run as concurrent request handlers (one thread per     *)
(* request, no lock around upload_sessions / uploaded_files / the staging  *)
(* directories).  Every handler is cut into steps at each access to shared *)
(* state: a dictionary operation or a filesystem call.                     *)
(***************************************************************************)
EXTENDS Integers, Sequences, FiniteSets, TLC

\* ------------------------------------------------------------ bounds
NumProcs == 2          \* request handlers that may run at the same time
MaxIds == 2            \* upload identifiers uuid4 can hand out
MaxTotal == 2          \* largest total_chunks / chunk index a request names
MaxPayload == 2        \* longest chunk payload, in bytes
MaxReqs == 4           \* requests served in one run
NumSids == 1           \* socket connections
NumTerms == 1          \* terminal session identifiers (browser sessions)
MaxEvents == 2         \* socket events that change the connection registry in one run

\* ------------------------------------------------------------ program constants
\* UploadConfig.max_file_size_bytes (51200 MiB by default), scaled down.
max_file_size_bytes == 3
\* The streaming buffer, 1024 * 1024 bytes in the source, scaled down to one.
BufSize == 1
\* Line 340: the longest terminal name handle_register accepts.
max_username_len == 24

Procs == 1..NumProcs
Ids == 1..MaxIds
\* An upload_id that is not an identifier uuid4 issued (empty, garbage, ...).
Bogus == 0
Bytes == 0..MaxPayload
\* The absence of a file at a path.
NoFile == <<-1>>
\* Chunk payloads: one of each length, <<1>>, <<2, 1>>, ... (byte 0 is left to
\* the holes a write past the end of a file leaves).
Payloads == {[k \in 1..n |-> n + 1 - k] : n \in 1..MaxPayload}
\* Filenames as sequences of characters, so that str.strip() can be computed.
Filenames == {<<>>, <<" ">>, <<"a", " ">>}
Sizes == {0 - 1, 0, max_file_size_bytes, max_file_size_bytes + 1}
Tokens == {"c1"}
NoInfo == [filename |-> <<>>, size |-> 0, client_msg_id |-> ""]
\* Chunk indices a staged file can have.
Idx == 0..(MaxTotal - 1)
NoSnap == [i \in Idx |-> NoFile]
\* LastPut: no PutChunk was accepted yet / the last one overlapped another.
NoPut == <<>>
Mixed == <<-2>>
NoReq == [op |-> "none", upload_id |-> Bogus, index |-> <<>>, total_chunks |-> <<>>,
          total |-> 0, chunk |-> NoFile, filename |-> <<>>, size |-> 0,
          client_msg_id |-> "", file_id |-> Bogus]

NoResponse == [req |-> NoReq, kind |-> "none", upload_id |-> Bogus,
               solo |-> TRUE, snap |-> NoSnap, prior |-> {}, body |-> NoFile]
\* Connections (request.sid) and the terminal_session_id a browser session holds.
Sids == 1..NumSids
TermIds == 1..NumTerms
\* session.get("terminal_session_id") of a session that has none.
NoTerm == 0
\* Terminal names as sequences of characters: blank, valid, and too long.
LongName == [k \in 1..(max_username_len + 1) |-> "x"]
Usernames == {<<" ">>, <<"u", " ">>, LongName}
\* Line 286: the name of an uploader without a registered terminal.
Anonymous == <<"A", "n", "o", "n", "y", "m", "o", "u", "s">>
\* dict.get(k) of a key that is not there.
None == [none |-> TRUE]

VARIABLES
    upload_sessions,   \* the registry: upload_id -> session record
    uploaded_files,    \* the finished file index: file_id -> entry
    messages,          \* the message history
    chunkDirs,         \* upload ids whose staging subdirectory exists
    chunkFiles,        \* chunkFiles[u][i]: bytes of chunk_i of u, or NoFile
    finalFiles,        \* finalFiles[u]: bytes of the finished file of u, or NoFile
    issued,            \* identifiers uuid4 has returned so far
    returned,          \* identifiers a successful init has returned to a client
    pc,                \* each handler's position
    req,               \* each running handler's request
    upload_id,         \* upload_init's local upload_id
    session_info,      \* upload_complete's local session_info
    index,             \* upload_complete's loop variable
    offset,            \* file position of the handler's open chunk file
    orphan,            \* the handler's open chunk file was unlinked
    entry,             \* serve_media's local entry
    terminal_session_id, \* upload_complete's local terminal_session_id
    username,          \* upload_complete's local username
    clients,           \* sid -> terminal name
    terminal_sessions, \* terminal_session_id -> [username, sids]
    sid_to_terminal_session, \* sid -> terminal_session_id
    session,           \* session[s]: terminal_session_id in the session of connection s
    nev,               \* socket events that changed the connection registry so far
    nreq,              \* requests started so far
    \* history variables
    response,          \* the response the last step sent, with the request it answers
    solo,              \* no conflicting handler ran while this one did
    snap,              \* the upload's chunk files when the handler started
    prior,             \* what had happened to the request's id when the handler started
    outcomes,          \* outcomes[u]: outcomes of the Complete calls returned so far
    consumed,          \* ids whose session a Complete removed from the registry
    accepted,          \* accepted[u]: the PutChunk calls answered ok, in that order
    concatenated       \* uploads whose concatenation loop ran to its end

vars == <<upload_sessions, uploaded_files, messages, chunkDirs, chunkFiles,
          finalFiles, issued, returned, pc, req, upload_id, session_info,
          index, offset, orphan, entry, terminal_session_id, username,
          clients, terminal_sessions, sid_to_terminal_session, session, nev,
          nreq, response, solo, snap, prior, outcomes,
          consumed, accepted, concatenated>>

\* ------------------------------------------------------------ pure helpers
Min(a, b) == IF a < b THEN a ELSE b

IsSpace(c) == c = " "

\* str.lstrip() / str.rstrip() / str.strip(): drop leading and trailing whitespace.
RECURSIVE lstrip(_)
lstrip(s) == IF s # <<>> /\ IsSpace(Head(s)) THEN lstrip(Tail(s)) ELSE s

RECURSIVE rstrip(_)
rstrip(s) ==
    IF s # <<>> /\ IsSpace(s[Len(s)]) THEN rstrip(SubSeq(s, 1, Len(s) - 1)) ELSE s

strip(s) == rstrip(lstrip(s))

\* Decimal digits, for the form fields index and total_chunks.
DigitChars == <<"0", "1", "2", "3", "4", "5", "6", "7", "8", "9">>
IsDigit(c) == \E d \in 1..10 : DigitChars[d] = c
DigitValue(c) == (CHOOSE d \in 1..10 : DigitChars[d] = c) - 1

\* str(n) for -9 <= n <= 9: the text a client sends for the number n.
Str(n) == IF n < 0 THEN <<"-", DigitChars[1 - n]>> ELSE <<DigitChars[n + 1]>>

RECURSIVE digits_value(_, _)
digits_value(s, acc) ==
    IF s = <<>> THEN acc ELSE digits_value(Tail(s), 10 * acc + DigitValue(Head(s)))

\* int(s) of a stripped string: an optional sign and one or more digits.
IsInt(s) ==
    LET body == IF s # <<>> /\ Head(s) \in {"-", "+"} THEN Tail(s) ELSE s
    IN  body # <<>> /\ \A k \in 1..Len(body) : IsDigit(body[k])

int(s) ==
    IF Head(s) = "-" THEN 0 - digits_value(Tail(s), 0)
    ELSE IF Head(s) = "+" THEN digits_value(Tail(s), 0)
    ELSE digits_value(s, 0)

\* HTTP status of each outcome; an uncaught exception is a 500.
Status(kind) ==
    CASE kind = "ok" -> 200
      [] kind \in {"InvalidRequest", "IncompleteRequest", "InvalidChunkIndex",
                   "IncompleteUpload"} -> 400
      [] kind \in {"SessionNotFound", "StagingDirectoryMissing", "NotFound"} -> 404
      [] kind = "FileTooLarge" -> 413
      [] OTHER -> 500

Zeros(n) == [k \in 1..n |-> 0]

\* f.write(data) at position off of a file holding bytes f.
WriteAt(f, off, data) ==
    LET head == IF off <= Len(f) THEN SubSeq(f, 1, off)
                ELSE f \o Zeros(off - Len(f))
        tail == IF off + Len(data) < Len(f)
                THEN SubSeq(f, off + Len(data) + 1, Len(f)) ELSE <<>>
    IN  head \o data \o tail

\* read(1024 * 1024) at position off of a stream holding bytes f.
ReadAt(f, off) ==
    IF off >= Len(f) THEN <<>> ELSE SubSeq(f, off + 1, Min(off + BufSize, Len(f)))

\* d[k] = v and d.pop(k) on a dictionary.
DictSet(d, k, v) == [x \in DOMAIN d \cup {k} |-> IF x = k THEN v ELSE d[x]]
\* d.get(k).
DictGet(d, k) == IF k \in DOMAIN d THEN d[k] ELSE None
\* The slip of reading the value and leaving the key in (d[k] for d.pop(k)).
DictPopKeeps(d, k) == d
DictPop(d, k) == [x \in DOMAIN d \ {k} |-> d[x]]

\* uuid4(): an identifier that was not issued before (the smallest, as the model's
\* identifiers are interchangeable).
\* The slip of an identifier source that repeats itself.
uuid4_repeats(used) == CHOOSE u \in Ids : \A v \in Ids : u <= v
uuid4(used) == CHOOSE u \in Ids \ used : \A v \in Ids \ used : u <= v

Running(p) == pc[p] # "idle"

\* ------------------------------------------------------------ initial state
\* The process after start-up: empty registries, both upload roots wiped.
Init ==
    /\ upload_sessions = <<>>
    /\ uploaded_files = <<>>
    /\ messages = <<>>
    /\ chunkDirs = {}
    /\ chunkFiles = [u \in Ids |-> NoSnap]
    /\ finalFiles = [u \in Ids |-> NoFile]
    /\ issued = {}
    /\ returned = {}
    /\ pc = [p \in Procs |-> "idle"]
    /\ req = [p \in Procs |-> NoReq]
    /\ upload_id = [p \in Procs |-> Bogus]
    /\ session_info = [p \in Procs |-> NoInfo]
    /\ index = [p \in Procs |-> 0]
    /\ offset = [p \in Procs |-> 0]
    /\ orphan = [p \in Procs |-> FALSE]
    /\ entry = [p \in Procs |-> None]
    /\ terminal_session_id = [p \in Procs |-> NoTerm]
    /\ username = [p \in Procs |-> Anonymous]
    /\ clients = <<>>
    /\ terminal_sessions = <<>>
    /\ sid_to_terminal_session = <<>>
    /\ session = [s \in Sids |-> NoTerm]
    /\ nev = 0
    /\ nreq = 0
    /\ response = NoResponse
    /\ solo = [p \in Procs |-> TRUE]
    /\ snap = [p \in Procs |-> NoSnap]
    /\ prior = [p \in Procs |-> {}]
    /\ outcomes = [u \in Ids \cup {Bogus} |-> {}]
    /\ consumed = {}
    /\ accepted = [u \in Ids |-> <<>>]
    /\ concatenated = {}

\* ------------------------------------------------------------ bookkeeping
\* Two requests conflict when they work on the same staged data: the same
\* upload, and either one is a Complete or both write the same chunk file.
Conflict(a, b) ==
    /\ a.op \in {"chunk", "complete"} /\ b.op \in {"chunk", "complete"}
    /\ a.upload_id = b.upload_id
    /\ a.upload_id \in Ids
    /\ \/ a.op = "complete"
       \/ b.op = "complete"
       \/ a.index = b.index

SoloAtStart(p, r) == \A q \in Procs \ {p} : ~(Running(q) /\ Conflict(req[q], r))

SnapOf(r) == IF r.upload_id \in Ids THEN chunkFiles[r.upload_id] ELSE NoSnap

\* The identifier a request names.
IdOf(r) == IF r.op = "media" THEN r.file_id ELSE r.upload_id

\* The Complete outcomes of r's id so far, and "popped" when its session was consumed.
PriorOf(r) ==
    outcomes[IdOf(r)] \cup (IF IdOf(r) \in consumed THEN {"popped"} ELSE {})

\* The connection registry, which the HTTP handlers read and never write.
connections == <<clients, terminal_sessions, sid_to_terminal_session, session, nev>>

\* A handler starts on request r (idle handlers are alike: the first one takes it).
Accept(p, r) ==
    /\ UNCHANGED connections
    /\ pc[p] = "idle"
    /\ \A q \in Procs : q < p => pc[q] # "idle"
    /\ nreq < MaxReqs
    /\ nreq' = nreq + 1
    /\ solo' = [q \in Procs |->
                  IF q = p THEN SoloAtStart(p, r)
                  ELSE solo[q] /\ ~(Running(q) /\ Conflict(req[q], r))]

\* ... and goes on to its next step,
Enter(p, r, label) ==
    /\ Accept(p, r)
    /\ pc' = [pc EXCEPT ![p] = label]
    /\ req' = [req EXCEPT ![p] = r]
    /\ snap' = [snap EXCEPT ![p] = SnapOf(r)]
    /\ prior' = [prior EXCEPT ![p] = PriorOf(r)]
    /\ response' = NoResponse
    /\ UNCHANGED outcomes

\* ... or answers at once, in the step that read the request.
Reject(p, r, kind) ==
    /\ Accept(p, r)
    /\ response' = [req |-> r, kind |-> kind, upload_id |-> r.upload_id,
                    solo |-> SoloAtStart(p, r), snap |-> SnapOf(r),
                    prior |-> PriorOf(r), body |-> NoFile]
    /\ outcomes' = IF r.op = "complete"
                   THEN [outcomes EXCEPT ![r.upload_id] = @ \cup {kind}]
                   ELSE outcomes
    /\ UNCHANGED <<pc, req, snap, prior>>

\* A running handler takes a step to label.
Goto(p, label) ==
    /\ UNCHANGED connections
    /\ pc' = [pc EXCEPT ![p] = label]
    /\ response' = NoResponse
    /\ UNCHANGED <<req, nreq, solo, snap, prior, outcomes>>

\* A running handler returns (or dies of an uncaught exception): id is the
\* identifier the response is about, body the bytes it carries.
ReturnBody(p, kind, id, body) ==
    /\ UNCHANGED connections
    /\ pc' = [pc EXCEPT ![p] = "idle"]
    /\ response' = [req |-> req[p], kind |-> kind, upload_id |-> id,
                    solo |-> solo[p], snap |-> snap[p], prior |-> prior[p],
                    body |-> body]
    /\ outcomes' = IF req[p].op = "complete"
                   THEN [outcomes EXCEPT ![req[p].upload_id] = @ \cup {kind}]
                   ELSE outcomes
    /\ req' = [req EXCEPT ![p] = NoReq]
    /\ solo' = [solo EXCEPT ![p] = TRUE]
    /\ snap' = [snap EXCEPT ![p] = NoSnap]
    /\ prior' = [prior EXCEPT ![p] = {}]
    /\ UNCHANGED nreq

Return(p, kind, id) == ReturnBody(p, kind, id, NoFile)

\* The locals of serve_media and of the attribution in upload_complete.
otherLocals == <<entry, terminal_session_id, username>>

\* The local variables the upload handlers share (the others stay as they are).
Locals(p, u, si, i, off, orph) ==
    /\ upload_id' = [upload_id EXCEPT ![p] = u]
    /\ session_info' = [session_info EXCEPT ![p] = si]
    /\ index' = [index EXCEPT ![p] = i]
    /\ offset' = [offset EXCEPT ![p] = off]
    /\ orphan' = [orphan EXCEPT ![p] = orph]
    /\ UNCHANGED otherLocals

NoLocals(p) == Locals(p, Bogus, NoInfo, 0, 0, FALSE)

locals == <<upload_id, session_info, index, offset, orphan, otherLocals>>
registry == <<upload_sessions, uploaded_files, messages>>
disk == <<chunkDirs, chunkFiles, finalFiles>>
history == <<consumed, accepted, concatenated>>

\* ------------------------------------------------------------ upload_init
InitRequest(fn, sz, tok) ==
    [NoReq EXCEPT !.op = "init", !.filename = fn, !.size = sz, !.client_msg_id = tok]

\* Identifiers are left for this Init and the ones already past validation.
IdsLeft ==
    Cardinality(issued) + Cardinality({q \in Procs : pc[q] = "i_store"}) < MaxIds

\* Line 172: size > UPLOAD_CONFIG.max_file_size_bytes.
\* The slip of refusing the maximum itself.
OverLimitOrAt(size) == size >= max_file_size_bytes
OverLimit(size) == size > max_file_size_bytes

\* Lines 163-173: read the request and validate it.
upload_init_validate(p, r) ==
    LET filename == strip(r.filename)
    IN  IF filename = <<>> \/ r.size <= 0
        THEN Reject(p, r, "InvalidRequest")
        ELSE IF OverLimit(r.size)
        THEN Reject(p, r, "FileTooLarge")
        ELSE IdsLeft /\ Enter(p, r, "i_store")

upload_init(p) ==
    /\ pc[p] = "idle" /\ nreq < MaxReqs
    /\ \E fn \in Filenames, sz \in Sizes, tok \in Tokens :
          upload_init_validate(p, InitRequest(fn, sz, tok))
    /\ UNCHANGED <<registry, disk, issued, returned, locals, history>>

\* Lines 175-182: allocate the identifier and store the session.
upload_init_store(p) ==
    /\ pc[p] = "i_store"
    /\ LET u == uuid4(issued)
       IN  /\ issued' = issued \cup {u}
           /\ upload_sessions' = DictSet(upload_sessions, u,
                  [filename |-> strip(req[p].filename), size |-> req[p].size,
                   client_msg_id |-> req[p].client_msg_id])
           /\ Locals(p, u, NoInfo, 0, 0, FALSE)
    /\ Goto(p, "i_mkdir")
    /\ UNCHANGED <<uploaded_files, messages, disk, returned, history>>

\* The slip of a mkdir that creates nothing.
MkdirNothing(dirs, u) == dirs
\* Path.mkdir(parents=True, exist_ok=True): the directory is there afterwards.
Mkdir(dirs, u) == dirs \cup {u}

\* Lines 183-196: create the staging subdirectory (exist_ok) and answer.
upload_init_mkdir(p) ==
    /\ pc[p] = "i_mkdir"
    /\ chunkDirs' = Mkdir(chunkDirs, upload_id[p])
    /\ returned' = returned \cup {upload_id[p]}
    /\ NoLocals(p)
    /\ Return(p, "ok", upload_id[p])
    /\ UNCHANGED <<registry, chunkFiles, finalFiles, issued, history>>

\* ------------------------------------------------------------ upload_chunk
\* What clients send as upload_id: an identifier an Init returned, or anything else.
KnownIds == returned \cup {Bogus}
\* The form fields index and total_chunks: absent, not a number, or a number.
\* The form a client sends: index and total_chunks as text, and the payload.
\* Well-formed requests with every payload; requests that will be refused
\* (a field absent or not a number, index < 0, total_chunks <= 0,
\* index >= total_chunks) with one payload.
OnePayload == CHOOSE c \in Payloads : Len(c) = 1
ChunkForms ==
    {f \in {<<Str(i), Str(t), c>> : i \in Idx, t \in 1..MaxTotal, c \in Payloads} :
        int(f[1]) < int(f[2])}
    \cup {<<Str(0 - 1), Str(1), OnePayload>>, <<Str(0), Str(0), OnePayload>>,
          <<Str(1), Str(1), OnePayload>>,
          <<<<>>, Str(1), OnePayload>>, <<Str(0), <<>>, OnePayload>>,
          <<Str(0), Str(1), NoFile>>,
          <<<<"x">>, Str(1), OnePayload>>, <<Str(0), <<"x">>, OnePayload>>}

ChunkRequest(u, ir, tr, c) ==
    [NoReq EXCEPT !.op = "chunk", !.upload_id = u, !.index = ir,
                  !.total_chunks = tr, !.chunk = c]

\* The chunk file a request writes, once its fields were validated.
ChunkIndex(r) == int(strip(r.index))

\* Line 217: index < 0 or total_chunks <= 0 or index >= total_chunks.
\* The slip of letting index = total_chunks through.
OutOfRangeAbove(i, t) == i < 0 \/ t <= 0 \/ i > t
OutOfRange(i, t) == i < 0 \/ t <= 0 \/ i >= t

\* Lines 201-218: read the form and validate it.
upload_chunk_validate(p, r) ==
    LET index_raw == strip(r.index)
        total_raw == strip(r.total_chunks)
    IN  IF r.upload_id = Bogus \/ r.upload_id \notin DOMAIN upload_sessions
        THEN Reject(p, r, "SessionNotFound")
        ELSE IF r.chunk = NoFile \/ index_raw = <<>> \/ total_raw = <<>>
        THEN Reject(p, r, "IncompleteRequest")
        ELSE IF ~IsInt(index_raw) \/ ~IsInt(total_raw)
        THEN Reject(p, r, "InvalidChunkIndex")
        ELSE IF OutOfRange(int(index_raw), int(total_raw))
        THEN Reject(p, r, "InvalidChunkIndex")
        ELSE Enter(p, r, "k_mkdir")

upload_chunk(p) ==
    /\ pc[p] = "idle" /\ nreq < MaxReqs
    /\ \E u \in KnownIds, f \in ChunkForms :
          upload_chunk_validate(p, ChunkRequest(u, f[1], f[2], f[3]))
    /\ UNCHANGED <<registry, disk, issued, returned, locals, history>>

\* Lines 220-221: chunk_dir.mkdir(parents=True, exist_ok=True).
upload_chunk_mkdir(p) ==
    /\ pc[p] = "k_mkdir"
    /\ chunkDirs' = Mkdir(chunkDirs, req[p].upload_id)
    /\ Goto(p, "k_open")
    /\ UNCHANGED <<registry, chunkFiles, finalFiles, issued, returned, locals, history>>

\* The slip of opening without truncation ("r+b" on a file that is there).
OpenKeep(f) == IF f = NoFile THEN <<>> ELSE f
\* open(path, "wb") on a directory that exists: the file is created, or
\* truncated to nothing when it is there.
OpenTruncate(f) == <<>>

\* Lines 222-225: open the chunk file for writing; FileNotFoundError when the
\* staging directory is gone.
upload_chunk_open(p) ==
    /\ pc[p] = "k_open"
    /\ LET u == req[p].upload_id
           i == ChunkIndex(req[p])
       IN  IF u \notin chunkDirs
           THEN /\ Return(p, "FileNotFoundError", u)
                /\ NoLocals(p)
                /\ UNCHANGED chunkFiles
           ELSE /\ chunkFiles' = [chunkFiles EXCEPT ![u][i] = OpenTruncate(@)]
                /\ Locals(p, Bogus, NoInfo, 0, 0, FALSE)
                /\ Goto(p, "k_write")
    /\ UNCHANGED <<registry, chunkDirs, finalFiles, issued, returned, history>>

\* Lines 226-232: one turn of the copy loop: read a buffer of the payload and
\* write it at the handle's position (into the unlinked inode when the file was
\* deleted meanwhile); at the end of the payload close the file and answer.
upload_chunk_write(p) ==
    /\ pc[p] = "k_write"
    /\ LET u == req[p].upload_id
           i == ChunkIndex(req[p])
           data == ReadAt(req[p].chunk, offset[p])
       IN  IF data = <<>>
           THEN /\ Return(p, "ok", u)
                /\ NoLocals(p)
                /\ accepted' = [accepted EXCEPT ![u] = Append(@,
                                    [index |-> i, chunk |-> req[p].chunk, solo |-> solo[p]])]
                /\ UNCHANGED chunkFiles
           ELSE /\ chunkFiles' = IF orphan[p] THEN chunkFiles
                                 ELSE [chunkFiles EXCEPT ![u][i] =
                                          WriteAt(@, offset[p], data)]
                /\ offset' = [offset EXCEPT ![p] = @ + Len(data)]
                /\ Goto(p, "k_write")
                /\ UNCHANGED <<upload_id, session_info, index, orphan, otherLocals, accepted>>
    /\ UNCHANGED <<registry, chunkDirs, finalFiles, issued, returned, consumed, concatenated>>

\* ------------------------------------------------------------ upload_complete
\* The JSON value of total_chunks as text: a number n is Str(n) (int(n) and
\* int(str(n)) agree), a string is its characters, null or absent is empty.
TotalChunksValues == {Str(t) : t \in (0 - 1)..MaxTotal} \cup {<<>>, <<"x">>}

\* Line 239: int(data.get("total_chunks") or 0) of a value int() accepts.
ParseTotal(raw) == IF raw = <<>> THEN 0 ELSE int(strip(raw))

CompleteRequest(u, raw) ==
    [NoReq EXCEPT !.op = "complete", !.upload_id = u, !.total_chunks = raw,
                  !.total = IF raw = <<>> \/ IsInt(strip(raw)) THEN ParseTotal(raw) ELSE 0]

\* The slip of refusing negative counts only.
Negative(t) == t < 0
\* Line 243: total_chunks <= 0.
NonPositive(t) == t <= 0

\* Lines 237-244: read the request and validate it; int() of line 239 raises
\* ValueError on text that is not a number, before the session is looked up.
upload_complete_validate(p, r) ==
    IF r.total_chunks # <<>> /\ ~IsInt(strip(r.total_chunks))
    THEN Reject(p, r, "ValueError")
    ELSE IF r.upload_id = Bogus \/ r.upload_id \notin DOMAIN upload_sessions
    THEN Reject(p, r, "SessionNotFound")
    ELSE IF NonPositive(r.total)
    THEN Reject(p, r, "InvalidRequest")
    ELSE Enter(p, r, "c_pop")

upload_complete(p) ==
    /\ pc[p] = "idle" /\ nreq < MaxReqs
    /\ \E u \in KnownIds, raw \in TotalChunksValues :
          upload_complete_validate(p, CompleteRequest(u, raw))
    /\ UNCHANGED <<registry, disk, issued, returned, locals, history>>

\* Line 246: session_info = upload_sessions.pop(upload_id); KeyError when
\* another handler removed the session since line 241.
upload_complete_pop(p) ==
    /\ pc[p] = "c_pop"
    /\ LET u == req[p].upload_id
       IN  IF u \notin DOMAIN upload_sessions
           THEN /\ Return(p, "KeyError", u)
                /\ NoLocals(p)
                /\ UNCHANGED <<upload_sessions, consumed>>
           ELSE /\ upload_sessions' = DictPop(upload_sessions, u)
                /\ consumed' = consumed \cup {u}
                /\ Locals(p, Bogus, upload_sessions[u], 0, 0, FALSE)
                /\ Goto(p, "c_exists")
    /\ UNCHANGED <<uploaded_files, messages, disk, issued, returned, accepted, concatenated>>

\* Lines 247-249: the staging directory must exist.
upload_complete_exists(p) ==
    /\ pc[p] = "c_exists"
    /\ IF req[p].upload_id \notin chunkDirs
       THEN Return(p, "StagingDirectoryMissing", req[p].upload_id) /\ NoLocals(p)
       ELSE Goto(p, "c_verify") /\ UNCHANGED locals
    /\ UNCHANGED <<registry, disk, issued, returned, history>>

\* Line 252: (chunk_dir / f"chunk_{index:06d}.part").exists().
\* The slip of a check that always passes.
ChunkExistsAlways(u, i) == TRUE
ChunkExists(u, i) == chunkFiles[u][i] # NoFile

\* Lines 251-253: one turn of the presence loop.
upload_complete_verify(p) ==
    /\ pc[p] = "c_verify"
    /\ LET u == req[p].upload_id
       IN  IF ~ChunkExists(u, index[p])
           THEN Return(p, "IncompleteUpload", u) /\ NoLocals(p)
           ELSE IF index[p] + 1 < req[p].total
           THEN /\ Goto(p, "c_verify")
                /\ index' = [index EXCEPT ![p] = @ + 1]
                /\ UNCHANGED <<upload_id, session_info, offset, orphan, otherLocals>>
           ELSE /\ Goto(p, "c_open")
                /\ index' = [index EXCEPT ![p] = 0]
                /\ UNCHANGED <<upload_id, session_info, offset, orphan, otherLocals>>
    /\ UNCHANGED <<registry, disk, issued, returned, history>>

\* Lines 255-259: open the destination file for writing.
upload_complete_open(p) ==
    /\ pc[p] = "c_open"
    /\ finalFiles' = [finalFiles EXCEPT ![req[p].upload_id] = <<>>]
    /\ Goto(p, "c_concat")
    /\ UNCHANGED <<registry, chunkDirs, chunkFiles, issued, returned, locals, history>>

\* Line 260: the k-th index of range(total_chunks).
\* The slip of walking the chunks from the last to the first.
RangeItemReversed(k, n) == n - 1 - k
RangeItem(k, n) == k

\* Lines 260-267: one turn of the copy loop: read a buffer of chunk index and
\* append it to the destination; at the end of the chunk go to the next one.
upload_complete_concat(p) ==
    /\ pc[p] = "c_concat"
    /\ LET u == req[p].upload_id
           f == chunkFiles[u][RangeItem(index[p], req[p].total)]
           data == ReadAt(f, offset[p])
       IN  IF f = NoFile
           THEN /\ Return(p, "FileNotFoundError", u)
                /\ NoLocals(p)
                /\ UNCHANGED <<finalFiles, concatenated>>
           ELSE IF data # <<>>
           THEN /\ finalFiles' = [finalFiles EXCEPT ![u] = @ \o data]
                /\ offset' = [offset EXCEPT ![p] = @ + Len(data)]
                /\ Goto(p, "c_concat")
                /\ UNCHANGED <<upload_id, session_info, index, orphan, otherLocals, concatenated>>
           ELSE IF index[p] + 1 < req[p].total
           THEN /\ index' = [index EXCEPT ![p] = @ + 1]
                /\ offset' = [offset EXCEPT ![p] = 0]
                /\ Goto(p, "c_concat")
                /\ UNCHANGED <<upload_id, session_info, orphan, otherLocals, finalFiles, concatenated>>
           ELSE /\ index' = [index EXCEPT ![p] = 0]
                /\ offset' = [offset EXCEPT ![p] = 0]
                /\ concatenated' = concatenated \cup {u}
                /\ Goto(p, "c_clean")
                /\ UNCHANGED <<upload_id, session_info, orphan, otherLocals, finalFiles>>
    /\ UNCHANGED <<registry, chunkDirs, chunkFiles, issued, returned, consumed, accepted>>

\* The slip of unlinking only the chunk files the request counted,
\* chunk_0 .. chunk_{total_chunks - 1}.
upload_complete_clean_counted(p) ==
    /\ pc[p] = "c_clean"
    /\ LET u == req[p].upload_id
       IN  /\ chunkFiles' = [chunkFiles EXCEPT ![u] =
                               [i \in Idx |-> IF i < req[p].total THEN NoFile ELSE @[i]]]
           /\ orphan' = [q \in Procs |->
                           IF pc[q] = "k_write" /\ req[q].upload_id = u
                              /\ ChunkIndex(req[q]) < req[p].total
                           THEN TRUE ELSE orphan[q]]
    /\ Goto(p, "c_rmdir")
    /\ UNCHANGED <<registry, chunkDirs, finalFiles, issued, returned,
                   upload_id, session_info, index, offset, otherLocals, history>>

\* Lines 269-270: unlink every chunk_*.part of the staging directory.  A
\* PutChunk that holds one of them open keeps writing to the unlinked inode.
upload_complete_clean(p) ==
    /\ pc[p] = "c_clean"
    /\ LET u == req[p].upload_id
       IN  /\ chunkFiles' = [chunkFiles EXCEPT ![u] = NoSnap]
           /\ orphan' = [q \in Procs |->
                           IF pc[q] = "k_write" /\ req[q].upload_id = u
                           THEN TRUE ELSE orphan[q]]
    /\ Goto(p, "c_rmdir")
    /\ UNCHANGED <<registry, chunkDirs, finalFiles, issued, returned,
                   upload_id, session_info, index, offset, otherLocals, history>>

\* Line 271: chunk_dir.rmdir(); OSError when a file is in it.
upload_complete_rmdir(p) ==
    /\ pc[p] = "c_rmdir"
    /\ LET u == req[p].upload_id
       IN  IF u \notin chunkDirs
           THEN Return(p, "FileNotFoundError", u) /\ NoLocals(p) /\ UNCHANGED chunkDirs
           ELSE IF chunkFiles[u] # NoSnap
           THEN Return(p, "OSError", u) /\ NoLocals(p) /\ UNCHANGED chunkDirs
           ELSE /\ chunkDirs' = chunkDirs \ {u}
                /\ Goto(p, "c_register")
                /\ UNCHANGED locals
    /\ UNCHANGED <<registry, chunkFiles, finalFiles, issued, returned, history>>

\* Lines 273-282: the finished file's record.
Entry(u, si) ==
    [file_id |-> u, original_name |-> si.filename, size |-> si.size,
     client_msg_id |-> si.client_msg_id]

\* Line 283: register the record in the finished file index.
upload_complete_register(p) ==
    /\ pc[p] = "c_register"
    /\ uploaded_files' = DictSet(uploaded_files, req[p].upload_id,
                                 Entry(req[p].upload_id, session_info[p]))
    /\ Goto(p, "c_lookup")
    /\ UNCHANGED <<upload_sessions, messages, disk, issued, returned, locals, history>>

\* Lines 285-287: the terminal_session_id of the uploader's session (any, or
\* none), and whether a terminal registered under it; terminal_sessions is
\* read without _clients_lock.
upload_complete_lookup(p) ==
    /\ pc[p] = "c_lookup"
    /\ \E t \in TermIds \cup {NoTerm} :
          IF t # NoTerm /\ t \in DOMAIN terminal_sessions
          THEN /\ terminal_session_id' = [terminal_session_id EXCEPT ![p] = t]
               /\ Goto(p, "c_username")
          ELSE /\ UNCHANGED terminal_session_id
               /\ Goto(p, "c_notify")
    /\ UNCHANGED <<registry, disk, issued, returned, upload_id, session_info,
                   index, offset, orphan, entry, username, history>>

\* Line 288: terminal_sessions[terminal_session_id].get("username", username);
\* KeyError when handle_disconnect removed the record since line 287.
upload_complete_username(p) ==
    /\ pc[p] = "c_username"
    /\ LET t == terminal_session_id[p]
       IN  IF t \notin DOMAIN terminal_sessions
           THEN /\ Return(p, "KeyError terminal_sessions", req[p].upload_id)
                /\ upload_id' = [upload_id EXCEPT ![p] = Bogus]
                /\ session_info' = [session_info EXCEPT ![p] = NoInfo]
                /\ terminal_session_id' = [terminal_session_id EXCEPT ![p] = NoTerm]
                /\ UNCHANGED username
           ELSE /\ username' = [username EXCEPT ![p] = terminal_sessions[t].username]
                /\ Goto(p, "c_notify")
                /\ UNCHANGED <<upload_id, session_info, terminal_session_id>>
    /\ UNCHANGED <<registry, disk, issued, returned, index, offset, orphan, entry,
                   history>>

\* client_msg_id=entry.get("client_msg_id") or None (line 297), None written "None".
OrNone(v) == IF v = "" THEN "None" ELSE v

\* Lines 290-301: append the file message, emit it and answer.
upload_complete_notify(p) ==
    /\ pc[p] = "c_notify"
    /\ messages' = Append(messages,
          [kind |-> "file", user |-> username[p],
           file |-> Entry(req[p].upload_id, session_info[p]),
           client_msg_id |-> OrNone(session_info[p].client_msg_id)])
    /\ Return(p, "ok", req[p].upload_id)
    /\ upload_id' = [upload_id EXCEPT ![p] = Bogus]
    /\ session_info' = [session_info EXCEPT ![p] = NoInfo]
    /\ terminal_session_id' = [terminal_session_id EXCEPT ![p] = NoTerm]
    /\ username' = [username EXCEPT ![p] = Anonymous]
    /\ UNCHANGED <<upload_sessions, uploaded_files, disk, issued, returned,
                   index, offset, orphan, entry, history>>

\* ------------------------------------------------------------ serve_media
MediaRequest(f) == [NoReq EXCEPT !.op = "media", !.file_id = f]

\* Lines 143-146: look the identifier up in the finished file index.
serve_media_lookup(p, r) ==
    LET e == DictGet(uploaded_files, r.file_id)
    IN  IF e = None
        THEN Reject(p, r, "NotFound") /\ UNCHANGED entry
        ELSE Enter(p, r, "m_exists") /\ entry' = [entry EXCEPT ![p] = e]

serve_media(p) ==
    /\ pc[p] = "idle" /\ nreq < MaxReqs
    /\ \E f \in KnownIds : serve_media_lookup(p, MediaRequest(f))
    /\ UNCHANGED <<registry, disk, issued, returned, upload_id, session_info,
                   index, offset, orphan, terminal_session_id, username, history>>

\* Lines 148-150: the stored file must be on disk.
serve_media_exists(p) ==
    /\ pc[p] = "m_exists"
    /\ IF finalFiles[entry[p].file_id] = NoFile
       THEN Return(p, "NotFound", Bogus) /\ entry' = [entry EXCEPT ![p] = None]
       ELSE Goto(p, "m_send") /\ UNCHANGED entry
    /\ UNCHANGED <<registry, disk, issued, returned, upload_id, session_info,
                   index, offset, orphan, terminal_session_id, username, history>>

\* Lines 152-158: send_file opens the stored file and streams its bytes.
serve_media_send(p) ==
    /\ pc[p] = "m_send"
    /\ LET f == finalFiles[entry[p].file_id]
       IN  IF f = NoFile
           THEN Return(p, "FileNotFoundError", Bogus)
           ELSE ReturnBody(p, "ok", Bogus, f)
    /\ entry' = [entry EXCEPT ![p] = None]
    /\ UNCHANGED <<registry, disk, issued, returned, upload_id, session_info,
                   index, offset, orphan, terminal_session_id, username, history>>

\* The slip of swallowing the exception and going on with the clean-up.
upload_complete_write_ignored(p) ==
    /\ pc[p] = "c_concat"
    /\ Goto(p, "c_clean")
    /\ UNCHANGED <<registry, disk, issued, returned, locals, history>>

\* Line 267 raising: an I/O failure of the destination write (disk full,
\* permission); the exception leaves the handler at once, the `with` closes
\* the file and what was written stays on disk.
upload_complete_write_fails(p) ==
    /\ pc[p] = "c_concat"
    /\ Return(p, "IOError", req[p].upload_id)
    /\ NoLocals(p)
    /\ UNCHANGED <<registry, disk, issued, returned, history>>

\* ------------------------------------------------------------ socket events
\* Events of connection s are served once the connections before it were used
\* (connections are alike).
Serve(s) ==
    /\ nev < MaxEvents
    /\ \A r \in Sids : r < s => session[r] # NoTerm
    /\ response' = NoResponse

\* ... and counted when they changed the registry.
Served ==
    nev' = IF <<clients', terminal_sessions', sid_to_terminal_session', session'>>
               = <<clients, terminal_sessions, sid_to_terminal_session, session>>
           THEN nev ELSE nev + 1

\* Lines 343-346: the terminal_session_id of the connection's session: the one
\* it holds, else the one of the browser's cookie or a new uuid4 (identifiers
\* are alike: one in use, or the first that is not).
SessionIds(s) ==
    IF session[s] # NoTerm THEN {session[s]}
    ELSE {t \in TermIds : \A v \in TermIds : v < t => \E r \in Sids : session[r] = v}

\* Lines 349-354: the record takes the name and the connection.
Registered(record, name, s) == [username |-> name, sids |-> record.sids \cup {s}]

\* Lines 336-361: register the connection under a terminal name.  The body of
\* `with _clients_lock` is one step: no other holder of the lock runs inside
\* it, and upload_complete, which reads terminal_sessions without the lock,
\* sees one change of it (the record appears, or its username changes).
handle_register(s) ==
    /\ Serve(s)
    /\ \E name \in Usernames :
          LET stripped == strip(name)
          IN  IF stripped = <<>> \/ Len(stripped) > max_username_len
              THEN UNCHANGED <<clients, terminal_sessions, sid_to_terminal_session,
                               session>>
              ELSE \E t \in SessionIds(s) :
                      LET terminal_record ==
                              IF t \in DOMAIN terminal_sessions
                              THEN terminal_sessions[t]
                              ELSE [username |-> stripped, sids |-> {}]
                      IN  /\ session' = [session EXCEPT ![s] = t]
                          /\ terminal_sessions' =
                                DictSet(terminal_sessions, t,
                                        Registered(terminal_record, stripped, s))
                          /\ sid_to_terminal_session' =
                                DictSet(sid_to_terminal_session, s, t)
                          /\ clients' = DictSet(clients, s, stripped)
    /\ Served
    /\ UNCHANGED <<registry, disk, issued, returned, pc, req, locals, nreq, solo,
                   snap, prior, outcomes, history>>

\* Lines 381-396: forget the connection; the terminal session goes with its
\* last connection.  One step, like the body of handle_register.
handle_disconnect(s) ==
    /\ Serve(s)
    /\ clients' = DictPop(clients, s)
    /\ sid_to_terminal_session' = DictPop(sid_to_terminal_session, s)
    /\ IF s \in DOMAIN sid_to_terminal_session
             /\ sid_to_terminal_session[s] \in DOMAIN terminal_sessions
       THEN LET t == sid_to_terminal_session[s]
                sids == terminal_sessions[t].sids \ {s}
            IN  terminal_sessions' =
                   IF sids = {}
                   THEN DictPop(terminal_sessions, t)
                   ELSE DictSet(terminal_sessions, t,
                                [terminal_sessions[t] EXCEPT !.sids = sids])
       ELSE UNCHANGED terminal_sessions
    /\ UNCHANGED session
    /\ Served
    /\ UNCHANGED <<registry, disk, issued, returned, pc, req, locals, nreq, solo,
                   snap, prior, outcomes, history>>

\* ------------------------------------------------------------ specifications
Next ==
    \E p \in Procs :
        \/ upload_init(p)
        \/ upload_init_store(p)
        \/ upload_init_mkdir(p)
        \/ upload_chunk(p)
        \/ upload_chunk_mkdir(p)
        \/ upload_chunk_open(p)
        \/ upload_chunk_write(p)
        \/ upload_complete(p)
        \/ upload_complete_pop(p)
        \/ upload_complete_exists(p)
        \/ upload_complete_verify(p)
        \/ upload_complete_open(p)
        \/ upload_complete_concat(p)
        \/ upload_complete_clean(p)
        \/ upload_complete_rmdir(p)
        \/ upload_complete_register(p)
        \/ upload_complete_lookup(p)
        \/ upload_complete_notify(p)
        \/ serve_media(p)
        \/ serve_media_exists(p)
        \/ serve_media_send(p)

Spec == Init /\ [][Next]_vars

\* The same handlers on a disk whose writes can fail.
NextFault == Next \/ \E p \in Procs : upload_complete_write_fails(p)

SpecFault == Init /\ [][NextFault]_vars

\* The same handlers with socket clients that register and disconnect.
NextConn ==
    \/ Next
    \/ \E p \in Procs : upload_complete_username(p)
    \/ \E s \in Sids : handle_register(s) \/ handle_disconnect(s)

SpecConn == Init /\ [][NextConn]_vars

\* ------------------------------------------------------------ properties
\* The step just taken answered a request of kind op.
Answered(op) == response.kind # "none" /\ response.req.op = op

\* Outcomes of a Complete handler that got past line 246 (it removed the session).
PoppedKinds ==
    {"ok", "IncompleteUpload", "StagingDirectoryMissing", "OSError",
     "FileNotFoundError", "IOError", "KeyError terminal_sessions"}

\* The payload of the last PutChunk answered ok for chunk i of u.
RECURSIVE LastPutIn(_, _)
LastPutIn(puts, i) ==
    IF puts = <<>> THEN NoPut
    ELSE IF puts[Len(puts)].index = i
    THEN (IF puts[Len(puts)].solo THEN puts[Len(puts)].chunk ELSE Mixed)
    ELSE LastPutIn(SubSeq(puts, 1, Len(puts) - 1), i)

LastPut(u, i) == LastPutIn(accepted[u], i)

\* chunks[0] \o chunks[1] \o ... \o chunks[n - 1].
RECURSIVE ConcatUpTo(_, _)
ConcatUpTo(chunks, n) ==
    IF n = 0 THEN <<>> ELSE ConcatUpTo(chunks, n - 1) \o chunks[n - 1]

NotANumber(r) ==
    r.op = "complete" /\ r.total_chunks # <<>> /\ ~IsInt(strip(r.total_chunks))

\* The answer to a request on a session that is gone: SessionNotFound, HTTP
\* 404, unless the request died of the ValueError of line 239 before the lookup.
RefusedAsUnknown(resp) ==
    /\ resp.kind = IF NotANumber(resp.req) THEN "ValueError" ELSE "SessionNotFound"
    /\ resp.kind = "SessionNotFound" => Status(resp.kind) = 404

C2_LosersGetSessionNotFound ==
    (Answered("complete") /\ response.req.total > 0
        /\ response.kind \notin PoppedKinds)
    => response.kind = "SessionNotFound"

\* C3: a Complete with totalChunks > 0 on a live session whose staging directory
\* exists, with no other handler on the upload running meanwhile, succeeds iff
\* every chunk 0 .. totalChunks-1 was staged when it started, and is answered
\* IncompleteUpload (HTTP 400) otherwise.
C3_CompleteIffAllChunks ==
    (Answered("complete") /\ response.solo /\ response.req.total > 0
        /\ response.kind \notin {"SessionNotFound", "StagingDirectoryMissing"})
    => LET present == \A i \in 0..(response.req.total - 1) : response.snap[i] # NoFile
       IN  /\ response.kind = "ok" <=> present
           /\ ~present => (response.kind = "IncompleteUpload"
                            /\ Status(response.kind) = 400)

\* A successful Complete of two chunks that ran alone.
C3_Witness ==
    /\ Answered("complete") /\ response.solo
    /\ response.req.total = 2
    /\ response.kind = "ok"

\* C4: after a successful Complete(uploadId, totalChunks) that no other handler
\* on the upload overlapped, the finished file is the concatenation, in index
\* order, of the payloads of the last accepted PutChunk of each chunk, in
\* whatever order the PutChunk calls were answered.
C4_ConcatInIndexOrder ==
    (Answered("complete") /\ response.kind = "ok" /\ response.solo
        /\ \A i \in 0..(response.req.total - 1) :
              LastPut(response.upload_id, i) \notin {NoPut, Mixed})
    => finalFiles[response.upload_id] =
          ConcatUpTo([i \in Idx |-> LastPut(response.upload_id, i)],
                     response.req.total)

\* Chunk 1 was accepted before chunk 0, and the file starts with chunk 0.
C4_Witness ==
    /\ Answered("complete") /\ response.kind = "ok" /\ response.solo
    /\ response.req.total = 2
    /\ Len(accepted[response.upload_id]) = 2
    /\ accepted[response.upload_id][1].index = 1
    /\ accepted[response.upload_id][2].index = 0
    /\ accepted[response.upload_id][1].chunk # accepted[response.upload_id][2].chunk
    /\ finalFiles[response.upload_id] =
          accepted[response.upload_id][2].chunk \o accepted[response.upload_id][1].chunk

\* C5: when a PutChunk that no other writer of the same chunk overlapped is
\* answered ok, the staged chunk holds exactly its payload, whatever the file
\* held before; and a successful Complete that ran alone copies the staged
\* chunks as they were when it started, so the later payload is the one in the
\* finished file.
C5_OverwriteWins ==
    /\ (Answered("chunk") /\ response.kind = "ok" /\ response.solo)
       => chunkFiles[response.upload_id][ChunkIndex(response.req)] = response.req.chunk
    /\ (Answered("complete") /\ response.kind = "ok" /\ response.solo)
       => finalFiles[response.upload_id] = ConcatUpTo(response.snap, response.req.total)

\* The same chunk accepted twice, the second payload shorter than the first,
\* and the finished file holding the second alone.
C5_Witness ==
    /\ Answered("complete") /\ response.kind = "ok" /\ response.solo
    /\ response.req.total = 1
    /\ Len(accepted[response.upload_id]) = 2
    /\ accepted[response.upload_id][1].index = 0
    /\ accepted[response.upload_id][2].index = 0
    /\ Len(accepted[response.upload_id][2].chunk) < Len(accepted[response.upload_id][1].chunk)
    /\ finalFiles[response.upload_id] = accepted[response.upload_id][2].chunk

\* C6: a PutChunk that starts when a Complete has already removed the session
\* of its uploadId is answered SessionNotFound (HTTP 404), in a step that changes
\* no directory and no file.
C6_NoChunkAfterConsumption ==
    [][(response'.kind # "none" /\ response'.req.op = "chunk"
            /\ "popped" \in response'.prior)
       => (/\ response'.kind = "SessionNotFound"
           /\ Status(response'.kind) = 404
           /\ UNCHANGED <<chunkDirs, chunkFiles, finalFiles>>)]_vars

\* A well-formed PutChunk refused because its upload was completed before.
C6_Witness ==
    /\ Answered("chunk")
    /\ "ok" \in response.prior /\ "popped" \in response.prior
    /\ response.req.chunk \in Payloads
    /\ response.req.index = Str(0) /\ response.req.total_chunks = Str(1)
    /\ response.kind = "SessionNotFound"

\* C7: no PutChunk / Complete interleaving leaves a staging directory behind a
\* finished upload, and no Complete fails while it deletes the staging directory.
C7_ChunkCompleteRaceFree ==
    /\ \A u \in DOMAIN uploaded_files : u \notin chunkDirs
    /\ Answered("complete") => response.kind # "OSError"

\* C8: every entry of the finished file index belongs to an upload whose
\* concatenation loop ran to its end, and a Complete that removed the session
\* and then failed (an I/O failure in the concatenation or the clean-up
\* included) leaves no entry for its uploadId.
C8_IndexOnlyAfterConcat ==
    /\ \A u \in DOMAIN uploaded_files : u \in concatenated /\ finalFiles[u] # NoFile
    /\ (Answered("complete") /\ response.kind \in PoppedKinds \ {"ok"})
       => response.upload_id \notin DOMAIN uploaded_files

\* A Complete whose destination write failed: a partial file, no index entry.
C8_Witness ==
    /\ Answered("complete")
    /\ response.kind = "IOError"
    /\ finalFiles[response.upload_id] # NoFile
    /\ finalFiles[response.upload_id] # ConcatUpTo(response.snap, response.req.total)
    /\ response.upload_id \notin DOMAIN uploaded_files

\* C9: the identifier an Init allocates was never issued or returned before, is
\* neither consumed nor in the finished file index; the step that stores the
\* session adds exactly that session and leaves the others as they were; and
\* the answering step creates the staging subdirectory of that identifier only.
C9_FreshIdentifier ==
    [][/\ \A p \in Procs :
            (pc[p] = "i_store" /\ pc'[p] = "i_mkdir")
            => LET u == upload_id'[p]
               IN  /\ u \in Ids
                   /\ u \notin issued \cup returned \cup consumed
                   /\ u \notin DOMAIN uploaded_files \cup DOMAIN upload_sessions
                   /\ DOMAIN upload_sessions' = DOMAIN upload_sessions \cup {u}
                   /\ \A v \in DOMAIN upload_sessions :
                         upload_sessions'[v] = upload_sessions[v]
                   /\ upload_sessions'[u].size = req[p].size
                   /\ upload_sessions'[u].client_msg_id = req[p].client_msg_id
       /\ (response'.kind = "ok" /\ response'.req.op = "init")
            => LET u == response'.upload_id
               IN  /\ u \notin returned
                   /\ u \in DOMAIN upload_sessions'
                   /\ upload_sessions' = upload_sessions
                   /\ chunkDirs' = chunkDirs \cup {u}
                   /\ chunkFiles' = chunkFiles
                   /\ returned' = returned \cup {u}]_vars

\* An Init answered with a new identifier while an earlier one is consumed and
\* in the finished file index.
C9_Witness ==
    /\ Answered("init") /\ response.kind = "ok"
    /\ \E v \in consumed :
          /\ v \in DOMAIN uploaded_files
          /\ v # response.upload_id
    /\ response.upload_id \in DOMAIN upload_sessions
    /\ response.upload_id \in chunkDirs

LiveAtStart(resp) == resp.upload_id \in Ids /\ "popped" \notin resp.prior

\* C11: a PutChunk on an uploadId that is not registered is answered
\* SessionNotFound (404) whatever its other fields are; on a live session a
\* missing payload, index or totalChunks gives IncompleteRequest (400), and a
\* non-integer index or totalChunks, index < 0, totalChunks <= 0 or
\* index >= totalChunks gives InvalidChunkIndex (400); the rejecting step
\* changes no chunk file, no directory and neither registry; and a step changes
\* a chunk file only on behalf of a PutChunk with 0 <= index < totalChunks.
C11_PutChunkValidation ==
    [][/\ (response'.kind # "none" /\ response'.req.op = "chunk")
          => LET r == response'.req
                 k == response'.kind
                 index_raw == strip(r.index)
                 total_raw == strip(r.total_chunks)
                 missing == r.chunk = NoFile \/ index_raw = <<>> \/ total_raw = <<>>
                 malformed == ~IsInt(index_raw) \/ ~IsInt(total_raw)
                 live == LiveAtStart(response')
             IN  /\ ~live => (k = "SessionNotFound" /\ Status(k) = 404)
                 /\ (live /\ missing) => (k = "IncompleteRequest" /\ Status(k) = 400)
                 /\ (live /\ ~missing /\ malformed)
                    => (k = "InvalidChunkIndex" /\ Status(k) = 400)
                 /\ (live /\ ~missing /\ ~malformed
                       /\ (int(index_raw) < 0 \/ int(total_raw) <= 0
                             \/ int(index_raw) >= int(total_raw)))
                    => (k = "InvalidChunkIndex" /\ Status(k) = 400)
                 /\ k \in {"SessionNotFound", "IncompleteRequest", "InvalidChunkIndex"}
                    => UNCHANGED <<upload_sessions, uploaded_files, chunkDirs,
                                   chunkFiles, finalFiles>>
       /\ \A u \in Ids, i \in Idx :
             (chunkFiles'[u][i] # chunkFiles[u][i] /\ chunkFiles'[u][i] # NoFile)
             => \E p \in Procs :
                   /\ req[p].op = "chunk" /\ req[p].upload_id = u
                   /\ IsInt(strip(req[p].index)) /\ IsInt(strip(req[p].total_chunks))
                   /\ int(strip(req[p].index)) = i
                   /\ 0 <= i /\ i < int(strip(req[p].total_chunks))]_vars

\* A PutChunk on a live session with index = totalChunks, refused, while a chunk
\* of that upload is staged.
C11_Witness ==
    /\ Answered("chunk")
    /\ LiveAtStart(response)
    /\ response.req.chunk \in Payloads
    /\ response.req.index = Str(1) /\ response.req.total_chunks = Str(1)
    /\ response.kind = "InvalidChunkIndex"
    /\ response.upload_id \in DOMAIN upload_sessions
    /\ chunkFiles[response.upload_id][0] # NoFile

\* A Complete handler is running on identifier f.
Completing(f) == \E p \in Procs : req[p].op = "complete" /\ req[p].upload_id = f

\* C12: a Resolve that starts after a Complete of its identifier returned
\* success finds the finished file and serves its bytes, whatever ran in
\* between; a Resolve of an identifier of which no Complete has returned
\* success, and none is running (unknown, in flight, or consumed by a failed
\* Complete), is answered NotFound (HTTP 404).
C12_ResolveOnlyAfterSuccess ==
    Answered("media")
    => LET f == response.req.file_id
       IN  /\ "ok" \in response.prior
              => /\ response.kind = "ok"
                 /\ f \in DOMAIN uploaded_files
                 /\ response.body = finalFiles[f]
           /\ (f = Bogus \/ ("ok" \notin outcomes[f] /\ ~Completing(f)))
              => (response.kind = "NotFound" /\ Status(response.kind) = 404)

\* The file messages of the history that carry the record of u.
MessagesOf(u) ==
    {k \in 1..Len(messages) : messages[k].kind = "file" /\ messages[k].file.file_id = u}

\* A Complete handler is between registering its record and its answer.
Notifying == \E p \in Procs : pc[p] \in {"c_lookup", "c_username", "c_notify"}

\* C13: a Complete answered with success has appended, as the last message of
\* the history, the one file message of its upload, carrying the record that
\* is in the finished file index and the session's correlation token; a
\* Complete that removed the session and failed leaves no message of its
\* upload; and whenever no Complete is between registering and answering, the
\* history holds as many file messages as the index holds entries.
C13_OneMessagePerCompletion ==
    /\ (Answered("complete") /\ response.kind = "ok")
       => LET u == response.upload_id
          IN  /\ u \in DOMAIN uploaded_files
              /\ MessagesOf(u) = {Len(messages)}
              /\ messages[Len(messages)].file = uploaded_files[u]
              /\ messages[Len(messages)].client_msg_id
                    = OrNone(uploaded_files[u].client_msg_id)
    /\ (Answered("complete") /\ response.kind \in PoppedKinds \ {"ok"})
       => MessagesOf(response.upload_id) = {}
    /\ ~Notifying
       => Cardinality({k \in 1..Len(messages) : messages[k].kind = "file"})
             = Cardinality(DOMAIN uploaded_files)

\* C14: the step in which a Complete is answered IncompleteUpload changes no
\* directory, no chunk file, no finished file and no index entry, and a Complete
\* that ran alone leaves the chunk files as they were when it started; from
\* then on the staging directory of that uploadId stays, its session is out of
\* the registry, it has no finished file and no index entry, and every PutChunk
\* or Complete that starts on it is refused (SessionNotFound, or the failure
\* of a Complete on its own totalChunks) without touching the staging area.
C14_IncompleteLeavesStaging ==
    [][/\ (response'.kind = "IncompleteUpload" /\ response'.req.op = "complete")
          => LET u == response'.upload_id
             IN  /\ UNCHANGED <<chunkDirs, chunkFiles, finalFiles, uploaded_files,
                                messages>>
                 /\ u \in chunkDirs'
                 /\ u \notin DOMAIN upload_sessions'
                 /\ response'.solo => chunkFiles'[u] = response'.snap
                 /\ \E i \in 0..(response'.req.total - 1) : response'.snap[i] = NoFile
                       \/ ~response'.solo
       /\ \A u \in Ids :
             "IncompleteUpload" \in outcomes'[u]
             => /\ u \in chunkDirs'
                /\ u \notin DOMAIN upload_sessions'
                /\ u \notin DOMAIN uploaded_files'
                /\ finalFiles'[u] = NoFile
       /\ (response'.kind # "none" /\ response'.req.op \in {"chunk", "complete"}
             /\ "IncompleteUpload" \in response'.prior)
          => /\ RefusedAsUnknown(response')
             /\ UNCHANGED <<chunkDirs, chunkFiles, finalFiles, uploaded_files,
                            upload_sessions>>]_vars

\* Chunk 1 of 2 staged, Complete(2) answered IncompleteUpload, and a later
\* PutChunk of chunk 0 refused with the staged chunk still in place.
C14_Witness ==
    /\ Answered("chunk")
    /\ "IncompleteUpload" \in response.prior
    /\ response.req.index = Str(0) /\ response.req.total_chunks = Str(2)
    /\ response.req.chunk \in Payloads
    /\ response.kind = "SessionNotFound"
    /\ response.upload_id \in chunkDirs
    /\ chunkFiles[response.upload_id][1] \in Payloads
    /\ chunkFiles[response.upload_id][0] = NoFile

\* C15: a Complete that ran alone on its upload and found every chunk
\* 0..total-1 staged succeeds, and when it answers the staging directory is
\* gone with every file that was in it, those of index >= total included; the
\* session is out of the registry and the finished file is the concatenation
\* of the counted chunks only.
C15_StagingRemoved ==
    /\ (Answered("complete") /\ response.solo /\ response.kind \in PoppedKinds
          /\ \A i \in 0..(response.req.total - 1) : response.snap[i] # NoFile)
       => response.kind = "ok"
    /\ (Answered("complete") /\ response.solo /\ response.kind = "ok")
       => LET u == response.upload_id
          IN  /\ u \notin chunkDirs
              /\ chunkFiles[u] = NoSnap
              /\ u \notin DOMAIN upload_sessions
              /\ finalFiles[u] = ConcatUpTo(response.snap, response.req.total)

\* A successful Complete of one chunk on an upload that also had chunk 1 staged.
C15_Witness ==
    /\ Answered("complete") /\ response.solo /\ response.kind = "ok"
    /\ response.req.total = 1
    /\ response.snap[0] \in Payloads /\ response.snap[1] \in Payloads
    /\ response.upload_id \notin chunkDirs
    /\ chunkFiles[response.upload_id] = NoSnap

\* What the step that reads a Complete request and refuses it must do: answer
\* SessionNotFound (404) when the uploadId is not registered, InvalidRequest
\* (400) when it is and totalChunks is <= 0, and change nothing.
C16_Refusal(r) ==
    LET live == r.upload_id \in DOMAIN upload_sessions
    IN  /\ response'.kind = IF live THEN "InvalidRequest" ELSE "SessionNotFound"
        /\ Status(response'.kind) = IF live THEN 400 ELSE 404
        /\ live => r.total <= 0 /\ r.upload_id \in DOMAIN upload_sessions'
        /\ UNCHANGED <<upload_sessions, uploaded_files, messages, chunkDirs,
                       chunkFiles, finalFiles>>

\* A Complete is let past the reading step only on a registered session with
\* totalChunks > 0, and only the reading step answers 404 or 400 for validation.
C16_Admission ==
    /\ \A p \in Procs :
          (pc[p] = "idle" /\ pc'[p] = "c_pop")
          => req'[p].upload_id \in DOMAIN upload_sessions /\ req'[p].total > 0
    /\ (response'.req.op = "complete"
          /\ response'.kind \in {"SessionNotFound", "InvalidRequest"})
       => pc' = pc

\* C16: a Complete whose uploadId is not in the registry when it starts is
\* answered SessionNotFound (404) whatever totalChunks is; one whose session is
\* registered and whose totalChunks is <= 0 is answered InvalidRequest (400);
\* either answer is given in a step that changes no session, no staged or
\* finished file, no index entry and no message, so the session of an
\* InvalidRequest is still registered.
C16_CompleteValidation ==
    [][/\ (response'.kind # "none" /\ response'.req.op = "complete" /\ pc' = pc)
          => C16_Refusal(response'.req)
       /\ C16_Admission]_vars

\* The same statement for the requests whose totalChunks is a number or absent.
C16_CompleteValidationOfNumbers ==
    [][/\ (response'.kind # "none" /\ response'.req.op = "complete" /\ pc' = pc
             /\ (response'.req.total_chunks = <<>>
                   \/ IsInt(strip(response'.req.total_chunks))))
          => C16_Refusal(response'.req)
       /\ C16_Admission]_vars

\* A Complete that succeeds on an upload whose earlier Complete was refused
\* with InvalidRequest.
C16_Witness ==
    /\ Answered("complete") /\ response.kind = "ok"
    /\ "InvalidRequest" \in response.prior
    /\ response.solo
    /\ finalFiles[response.upload_id] \in Payloads

\* The payloads of the accepted PutChunks of chunk i of upload u.
AcceptedPayloads(u, i) ==
    {accepted[u][k].chunk : k \in {j \in 1..Len(accepted[u]) : accepted[u][j].index = i}}

\* A PutChunk handler is between its validation and its answer on chunk i of u.
Writing(u, i) ==
    \E p \in Procs : /\ pc[p] \in {"k_mkdir", "k_open", "k_write"}
                     /\ req[p].upload_id = u /\ ChunkIndex(req[p]) = i

\* C17: on an upload no Complete has consumed, once every PutChunk handler on
\* chunk i has finished, the chunk file holds one of the accepted payloads in
\* full, also when two of the handlers overlapped.
C17_NoMixture ==
    \A u \in DOMAIN upload_sessions, i \in Idx :
        (u \in returned /\ ~Writing(u, i) /\ AcceptedPayloads(u, i) # {})
        => chunkFiles[u][i] \in AcceptedPayloads(u, i)

\* C18: every registered session whose Init has returned has its staging
\* directory; a Complete handler that has removed the session and is about to
\* test the directory finds it; no Complete is answered with the
\* missing-staging-directory outcome.
C18_StagingDirectoryPresent ==
    /\ \A u \in DOMAIN upload_sessions : u \in returned => u \in chunkDirs
    /\ \A p \in Procs : pc[p] = "c_exists" => req[p].upload_id \in chunkDirs
    /\ Answered("complete") => response.kind # "StagingDirectoryMissing"

\* A Complete about to test the directory while a PutChunk handler on the same
\* upload is about to open its file, after an earlier chunk was staged.
C18_Witness ==
    \E p, q \in Procs :
        /\ pc[p] = "c_exists" /\ pc[q] = "k_open"
        /\ req[q].upload_id = req[p].upload_id
        /\ req[p].upload_id \in chunkDirs
        /\ chunkFiles[req[p].upload_id] # NoSnap

\* The Complete handlers that removed the session of u and have not answered.
Reassembling(u) ==
    {p \in Procs : /\ req[p].op = "complete" /\ req[p].upload_id = u
                   /\ pc[p] \notin {"idle", "c_pop"}}

\* C19: no identifier is at once in the session registry and in the finished
\* file index; an identifier enters the index only after its session was
\* removed, through the one handler that removed it and only when it has no
\* entry yet; an entry is never changed or removed; an identifier enters the
\* registry only when it was never issued, consumed or indexed before.
C19_RegistryIndexDisjoint ==
    [][/\ DOMAIN upload_sessions' \cap DOMAIN uploaded_files' = {}
       /\ \A u \in DOMAIN uploaded_files :
             u \in DOMAIN uploaded_files' /\ uploaded_files'[u] = uploaded_files[u]
       /\ \A u \in DOMAIN uploaded_files' \ DOMAIN uploaded_files :
             /\ u \in consumed /\ u \notin DOMAIN upload_sessions
             /\ uploaded_files'[u].file_id = u
       /\ \A u \in Ids :
             /\ Cardinality(Reassembling(u)) <= 1
             /\ (\E p \in Reassembling(u) : pc[p] = "c_register")
                => u \notin DOMAIN uploaded_files
             /\ u \in DOMAIN uploaded_files => u \in consumed
       /\ \A u \in DOMAIN upload_sessions' \ DOMAIN upload_sessions :
             /\ u \notin issued /\ u \notin consumed
             /\ u \notin DOMAIN uploaded_files]_vars

\* One upload finished and indexed, and a second Init answered afterwards with
\* another identifier whose session is registered.
C19_Witness ==
    /\ Answered("init") /\ response.kind = "ok"
    /\ response.upload_id \in DOMAIN upload_sessions
    /\ \E u \in DOMAIN uploaded_files :
          /\ u # response.upload_id
          /\ u \in consumed /\ u \notin DOMAIN upload_sessions
          /\ finalFiles[u] \in Payloads

\* The terminal session records that hold connection s.
RecordsOf(s) == {t \in DOMAIN terminal_sessions : s \in terminal_sessions[t].sids}

\* Parts (1) and (2) of C20: a connection is in clients iff it is in
\* sid_to_terminal_session iff exactly one record holds it, the map names that
\* record, and no record has an empty set of connections.
C20_RegistryShape ==
    /\ \A s \in Sids :
          /\ s \in DOMAIN clients <=> s \in DOMAIN sid_to_terminal_session
          /\ s \in DOMAIN clients <=> Cardinality(RecordsOf(s)) = 1
          /\ s \notin DOMAIN clients => RecordsOf(s) = {}
          /\ s \in DOMAIN sid_to_terminal_session
             => RecordsOf(s) = {sid_to_terminal_session[s]}
    /\ \A t \in DOMAIN terminal_sessions : terminal_sessions[t].sids # {}

\* C20: the connection registry is consistent in the sense of (1) and (2), so
\* that every Complete that registered its file gets through the attribution:
\* it is answered with success, and the message it appended carries Anonymous
\* or the name of a registered terminal.
C20_ConnectionRegistryConsistent ==
    /\ C20_RegistryShape
    /\ (Answered("complete") /\ response.kind \in PoppedKinds
          /\ response.upload_id \in DOMAIN uploaded_files)
       => /\ response.kind = "ok"
          /\ messages # <<>>
          /\ messages[Len(messages)].user
                \in {Anonymous} \cup {strip(n) : n \in Usernames}

=============================================================================
